---- MODULE Spec2Model ----
(***************************************************************************)
(* Model of the schedule store of the family home schedule application:    *)
(* core/data_manager.py (DataManager) and core/color_manager.py            *)
(* (ColorManager).  The store is the ordered dict family_members, the      *)
(* allocator is current_color_index, the persisted state is the file       *)
(* data/data.json.  gui/chart_canvas.py (ChartCanvas, in its two versions) *)
(* is the chart: canvas holds the bars it has drawn, drag_data is the      *)
(* state of the drag in progress.                                          *)
(***************************************************************************)
EXTENDS Integers, Sequences, FiniteSets, TLC

VARIABLES family_members, current_color_index, disk, result, canvas, drag_data

vars == <<family_members, current_color_index, disk, result, canvas, drag_data>>

(***************************************************************************)
(* Bounds of the model.                                                    *)
(***************************************************************************)
\* hours range over 0..MaxHour
MaxHour == 1
\* the store holds at most MaxLen intervals, all members together
MaxLen == 2
Names == {"a", "b"}
Hours == 0 .. MaxHour
\* every pair (start, end), malformed ones (start >= end) included
Intervals == Hours \X Hours
\* indexes a caller may pass: in bounds, past the end, negative
IndexArgs == (0 - (MaxLen + 1)) .. MaxLen
\* get_next_color is called at most MaxCalls times on a new allocator
MaxCalls == 11
\* and at most MaxCallsAfter times after the index was set from used colors
MaxCallsAfter == 1
\* sets of used colors hold at most MaxUsed colors, or the whole palette
MaxUsed == 2
\* events the window handles in a run of the chart
MaxEvents == 7

(***************************************************************************)
(* ColorManager                                                            *)
(***************************************************************************)
CHART_COLORS ==
  <<"skyblue", "lightgreen", "salmon", "orchid", "gold",
    "lightcoral", "lightsteelblue", "palegreen", "sandybrown", "plum">>

InPalette(color) == \E k \in 1 .. Len(CHART_COLORS) : CHART_COLORS[k] = color

\* an allocator that wraps one position early
get_next_color_early_wrap(index) ==
  [color |-> CHART_COLORS[index + 1],
   index |-> (index + 1) % (Len(CHART_COLORS) - 1)]

\* an allocator that skips every other palette entry
get_next_color_skipping(index) ==
  [color |-> CHART_COLORS[index + 1],
   index |-> (index + 2) % Len(CHART_COLORS)]

\* get_next_color: the color at the index (0-based) and the advanced index
get_next_color(index) ==
  [color |-> CHART_COLORS[index + 1],
   index |-> (index + 1) % Len(CHART_COLORS)]

RECURSIVE ScanUsed(_, _)
ScanUsed(index, used_colors) ==
  IF index < Len(CHART_COLORS) /\ CHART_COLORS[index + 1] \in used_colors
  THEN ScanUsed(index + 1, used_colors)
  ELSE index

\* an index set to the number of used colors, as if they were a prefix of
\* the palette
set_current_color_index_counting(used_colors) ==
  Cardinality({k \in 1 .. Len(CHART_COLORS) : CHART_COLORS[k] \in used_colors})
    % Len(CHART_COLORS)

\* set_current_color_index_based_on_used_colors: the new index
set_current_color_index_based_on_used_colors(used_colors) ==
  LET index == ScanUsed(0, used_colors)
  IN  IF index >= Len(CHART_COLORS) THEN 0 ELSE index

(***************************************************************************)
(* Python lists of (start, end) tuples                                     *)
(***************************************************************************)
\* tuple comparison of Python: lexicographic
TupleLess(s, t) == s[1] < t[1] \/ (s[1] = t[1] /\ s[2] < t[2])

RECURSIVE InsertSorted(_, _)
InsertSorted(sorted, t) ==
  IF sorted = <<>> THEN <<t>>
  ELSE IF TupleLess(t, Head(sorted)) THEN <<t>> \o sorted
  ELSE <<Head(sorted)>> \o InsertSorted(Tail(sorted), t)

\* a store that leaves its lists in insertion order
ListSortSkipped(list) == list

RECURSIVE ListSort(_)
\* list.sort(): stable ascending sort
ListSort(list) ==
  IF list = <<>> THEN <<>>
  ELSE LET n == Len(list)
       IN  InsertSorted(ListSort(SubSeq(list, 1, n - 1)), list[n])

\* a deletion that is off by one: the element after position k goes
DelAtNext(list, k) == SubSeq(list, 1, k) \o SubSeq(list, k + 2, Len(list))

\* del list[k], k a 1-based position
DelAt(list, k) == SubSeq(list, 1, k - 1) \o SubSeq(list, k + 1, Len(list))

\* position (1-based) that a Python index (0-based, negative from the end)
\* designates; only for -len <= index < len
PyPos(list, index) == IF index >= 0 THEN index + 1 ELSE Len(list) + index + 1

\* list.remove(x): the first occurrence goes, ValueError when there is none
ListRemove(list, x) ==
  IF \E k \in 1 .. Len(list) : list[k] = x
  THEN LET k == CHOOSE j \in 1 .. Len(list) :
                  list[j] = x /\ \A i \in 1 .. (j - 1) : list[i] # x
       IN  [raised |-> "none", list |-> DelAt(list, k), via |-> "value"]
  ELSE [raised |-> "ValueError", list |-> list, via |-> "none"]

\* a removal that trusts the index: whatever is at the index goes
RemoveScheduleUnchecked(schedules, schedule, index) ==
  IF index < Len(schedules) /\ index >= 0 - Len(schedules)
  THEN [raised |-> "none", list |-> DelAt(schedules, PyPos(schedules, index)),
        via |-> "index"]
  ELSE ListRemove(schedules, schedule)

\* the removal step shared by update_schedule and delete_schedule:
\*   if index < len(schedules) and schedules[index] == schedule:
\*       del schedules[index]
\*   else: schedules.remove(schedule)
RemoveSchedule(schedules, schedule, index) ==
  IF index < Len(schedules)
  THEN IF index < 0 - Len(schedules)
       THEN [raised |-> "IndexError", list |-> schedules, via |-> "none"]
       ELSE IF schedules[PyPos(schedules, index)] = schedule
            THEN [raised |-> "none",
                  list |-> DelAt(schedules, PyPos(schedules, index)),
                  via |-> IF index >= 0 THEN "index" ELSE "negative_index"]
            ELSE ListRemove(schedules, schedule)
  ELSE ListRemove(schedules, schedule)

(***************************************************************************)
(* The ordered dict family_members: a sequence of entries in insertion     *)
(* order, one per key                                                      *)
(***************************************************************************)
HasMember(members, name) == \E k \in 1 .. Len(members) : members[k].name = name

MemberPos(members, name) == CHOOSE k \in 1 .. Len(members) : members[k].name = name

Member(members, name) == members[MemberPos(members, name)]

SetSchedules(members, name, schedules) ==
  [members EXCEPT ![MemberPos(members, name)].schedules = schedules]

RECURSIVE TotalLen(_)
\* the number of intervals in the store
TotalLen(members) ==
  IF members = <<>> THEN 0
  ELSE Len(Head(members).schedules) + TotalLen(Tail(members))

(***************************************************************************)
(* Persistence: data/data.json                                             *)
(***************************************************************************)
NoFile == [kind |-> "absent"]
\* text that json.load does not parse
CorruptFile == [kind |-> "corrupt"]
\* JSON text whose top level is an array: it has no items()
ArrayFile == [kind |-> "array"]

\* a tuple is written as a JSON array
JsonArray(t) == [array |-> t]

\* a serialisation that leaves the colors out
SerializeSchedulesOnly(members) ==
  [kind |-> "json",
   entries |-> [k \in 1 .. Len(members) |->
                  [name |-> members[k].name,
                   schedules |-> [j \in 1 .. Len(members[k].schedules) |->
                                    JsonArray(members[k].schedules[j])]]]]

\* the dict save_data serialises
Serialize(members) ==
  [kind |-> "json",
   entries |-> [k \in 1 .. Len(members) |->
                  [name |-> members[k].name,
                   schedules |-> [j \in 1 .. Len(members[k].schedules) |->
                                    JsonArray(members[k].schedules[j])],
                   color |-> members[k].color]]]

\* a save_data that writes nothing
save_data_skipped(file, members, io) == file

\* save_data: the file after the call.  io = "ok": written; "open_fails":
\* the exception is caught before anything is written; "dump_fails": the
\* file was truncated by open(.., 'w') and is left incomplete
save_data(file, members, io) ==
  CASE io = "ok" -> Serialize(members)
    [] io = "open_fails" -> file
    [] OTHER -> CorruptFile

\* None of Python
None == "None"

\* an entry of the loaded dict is its key (name) and its value: an object
\* with the keys schedules and color, either of which can be absent, or a
\* value that is not an object (the entry then has the field value)
IsObject(e) == "value" \notin DOMAIN e

\* data.get('schedules', [])
GetSchedules(e) == IF "schedules" \in DOMAIN e THEN e.schedules ELSE <<>>

\* data.get('color')
GetColor(e) == IF "color" \in DOMAIN e THEN e.color ELSE None

\* a load that gives a new color only to members that have none
NeedsColorWhenMissing(e) == GetColor(e) = None

\* color is None or color not in CHART_COLORS
NeedsColor(e) == GetColor(e) = None \/ ~InPalette(GetColor(e))

\* tuple(s) is defined for the arrays of schedules_list
Iterable(schedules_list) ==
  \A j \in 1 .. Len(schedules_list) : "array" \in DOMAIN schedules_list[j]

RECURSIVE LoadEntries(_, _, _, _)
\* the loop of load_data over the entries of the loaded dict and the call
\* that follows it; raised is the exception that left the loop, if any,
\* and members and index are what the loop had reached by then
LoadEntries(entries, members, index, used_colors) ==
  IF entries = <<>>
  THEN [members |-> members,
        index |-> set_current_color_index_based_on_used_colors(used_colors),
        raised |-> "none"]
  ELSE LET e == Head(entries)
           fresh == NeedsColor(e)
           next == get_next_color(index)
           color == IF fresh THEN next.color ELSE GetColor(e)
           reached == IF fresh THEN next.index ELSE index
           entry == [name |-> e.name,
                     schedules |-> [j \in 1 .. Len(GetSchedules(e)) |->
                                      GetSchedules(e)[j].array],
                     color |-> color]
       IN  IF ~IsObject(e)
           THEN [members |-> members, index |-> index, raised |-> "AttributeError"]
           ELSE IF ~Iterable(GetSchedules(e))
           THEN [members |-> members, index |-> reached, raised |-> "TypeError"]
           ELSE LoadEntries(Tail(entries), Append(members, entry), reached,
                            used_colors \cup {color})

\* a load_data that keeps the members read before an exception
load_data_keeping(file) ==
  CASE file.kind = "json" -> LoadEntries(file.entries, <<>>, 0, {})
    [] file.kind = "corrupt" ->
         [members |-> <<>>, index |-> 0, raised |-> "JSONDecodeError"]
    [] file.kind = "array" ->
         [members |-> <<>>, index |-> 0, raised |-> "AttributeError"]
    [] OTHER -> [members |-> <<>>, index |-> 0, raised |-> "none"]

\* a load_data that leaves the allocator where a new one starts
load_data_unseeded(file) ==
  CASE file.kind = "json" ->
         LET loaded == LoadEntries(file.entries, <<>>, 0, {})
         IN  [loaded EXCEPT !.members = IF loaded.raised = "none" THEN @ ELSE <<>>,
                            !.index = 0]
    [] file.kind = "corrupt" ->
         [members |-> <<>>, index |-> 0, raised |-> "JSONDecodeError"]
    [] file.kind = "array" ->
         [members |-> <<>>, index |-> 0, raised |-> "AttributeError"]
    [] OTHER -> [members |-> <<>>, index |-> 0, raised |-> "none"]

\* load_data on a new DataManager (family_members = {}, index 0): both
\* except clauses leave family_members = {}
load_data(file) ==
  CASE file.kind = "json" ->
         LET loaded == LoadEntries(file.entries, <<>>, 0, {})
         IN  [loaded EXCEPT !.members = IF loaded.raised = "none" THEN @ ELSE <<>>]
    [] file.kind = "corrupt" ->
         [members |-> <<>>, index |-> 0, raised |-> "JSONDecodeError"]
    [] file.kind = "array" ->
         [members |-> <<>>, index |-> 0, raised |-> "AttributeError"]
    [] OTHER -> [members |-> <<>>, index |-> 0, raised |-> "none"]

(***************************************************************************)
(* DataManager operations, as functions of the store, the allocator index  *)
(* and the file.  Each gives the state after the whole call, the save_data *)
(* at its end included (io is the outcome of that write), and the result   *)
(* reported to the caller: success flag, kind of failure, the branch that  *)
(* removed the interval, the number of save_data calls.                    *)
(***************************************************************************)
Result(op, success, error, via, saves) ==
  [op |-> op, success |-> success, error |-> error, via |-> via, saves |-> saves]

Outcome(members, index, file, res) ==
  [members |-> members, index |-> index, file |-> file, result |-> res]

\* an add_member that takes the color before it looks for the name
add_member_color_first(members, index, file, name, io) ==
  LET next == get_next_color(index)
      added == Append(members,
                      [name |-> name, schedules |-> <<>>, color |-> next.color])
  IN  IF HasMember(members, name)
      THEN Outcome(members, next.index, file,
                   Result("add_member", FALSE, "DuplicateMember", "none", 0))
      ELSE Outcome(added, next.index, save_data(file, added, io),
                   Result("add_member", TRUE, "none", "none", 1))

add_member(members, index, file, name, io) ==
  IF HasMember(members, name)
  THEN Outcome(members, index, file,
               Result("add_member", FALSE, "DuplicateMember", "none", 0))
  ELSE LET next == get_next_color(index)
           added == Append(members,
                           [name |-> name, schedules |-> <<>>, color |-> next.color])
       IN  Outcome(added, next.index, save_data(file, added, io),
                   Result("add_member", TRUE, "none", "none", 1))

\* a delete_member that saves whether or not the member was found
delete_member_always_saves(members, index, file, name, io) ==
  IF HasMember(members, name)
  THEN LET left == DelAt(members, MemberPos(members, name))
       IN  Outcome(left, index, save_data(file, left, io),
                   Result("delete_member", TRUE, "none", "none", 1))
  ELSE Outcome(members, index, save_data(file, members, io),
               Result("delete_member", FALSE, "MemberNotFound", "none", 1))

\* a delete_member that empties the member's list and keeps the member
delete_member_keeps_entry(members, index, file, name, io) ==
  IF HasMember(members, name)
  THEN LET left == SetSchedules(members, name, <<>>)
       IN  Outcome(left, index, save_data(file, left, io),
                   Result("delete_member", TRUE, "none", "none", 1))
  ELSE Outcome(members, index, file,
               Result("delete_member", FALSE, "MemberNotFound", "none", 0))

\* a delete_member that gives the color of the deleted member back: the
\* allocator goes to its palette position
delete_member_releasing(members, index, file, name, io) ==
  IF HasMember(members, name)
  THEN LET left == DelAt(members, MemberPos(members, name))
           released == CHOOSE k \in 0 .. (Len(CHART_COLORS) - 1) :
                         CHART_COLORS[k + 1] = Member(members, name).color
       IN  Outcome(left, released, save_data(file, left, io),
                   Result("delete_member", TRUE, "none", "none", 1))
  ELSE Outcome(members, index, file,
               Result("delete_member", FALSE, "MemberNotFound", "none", 0))

delete_member(members, index, file, name, io) ==
  IF HasMember(members, name)
  THEN LET left == DelAt(members, MemberPos(members, name))
       IN  Outcome(left, index, save_data(file, left, io),
                   Result("delete_member", TRUE, "none", "none", 1))
  ELSE Outcome(members, index, file,
               Result("delete_member", FALSE, "MemberNotFound", "none", 0))

\* an add_schedule that validates the range as the form does
add_schedule_validating(members, index, file, member_name, start_hour, end_hour, io) ==
  IF ~HasMember(members, member_name)
  THEN Outcome(members, index, file,
               Result("add_schedule", FALSE, "MemberNotFound", "none", 0))
  ELSE IF start_hour >= end_hour
  THEN Outcome(members, index, file,
               Result("add_schedule", FALSE, "Exception", "none", 0))
  ELSE LET schedules == Member(members, member_name).schedules
           changed == SetSchedules(members, member_name,
                        ListSort(Append(schedules, <<start_hour, end_hour>>)))
       IN  Outcome(changed, index, save_data(file, changed, io),
                   Result("add_schedule", TRUE, "none", "none", 1))

\* an add_schedule that undoes the change and reports a failure when the
\* write fails
add_schedule_rolling_back(members, index, file, member_name, start_hour, end_hour, io) ==
  IF ~HasMember(members, member_name)
  THEN Outcome(members, index, file,
               Result("add_schedule", FALSE, "MemberNotFound", "none", 0))
  ELSE LET schedules == Member(members, member_name).schedules
           changed == SetSchedules(members, member_name,
                        ListSort(Append(schedules, <<start_hour, end_hour>>)))
       IN  IF io = "ok"
           THEN Outcome(changed, index, save_data(file, changed, io),
                        Result("add_schedule", TRUE, "none", "none", 1))
           ELSE Outcome(members, index, save_data(file, changed, io),
                        Result("add_schedule", FALSE, "PersistenceFailure", "none", 1))

\* an add_schedule that builds the entry anew, with a color from the
\* allocator, as add_member builds it
add_schedule_recreating(members, index, file, member_name, start_hour, end_hour, io) ==
  IF ~HasMember(members, member_name)
  THEN Outcome(members, index, file,
               Result("add_schedule", FALSE, "MemberNotFound", "none", 0))
  ELSE LET schedules == Member(members, member_name).schedules
           next == get_next_color(index)
           changed == [SetSchedules(members, member_name,
                         ListSort(Append(schedules, <<start_hour, end_hour>>)))
                         EXCEPT ![MemberPos(members, member_name)].color = next.color]
       IN  Outcome(changed, next.index, save_data(file, changed, io),
                   Result("add_schedule", TRUE, "none", "none", 1))

add_schedule(members, index, file, member_name, start_hour, end_hour, io) ==
  IF ~HasMember(members, member_name)
  THEN Outcome(members, index, file,
               Result("add_schedule", FALSE, "MemberNotFound", "none", 0))
  ELSE LET schedules == Member(members, member_name).schedules
           changed == SetSchedules(members, member_name,
                        ListSort(Append(schedules, <<start_hour, end_hour>>)))
       IN  Outcome(changed, index, save_data(file, changed, io),
                   Result("add_schedule", TRUE, "none", "none", 1))

\* a clear_member_schedules that empties the list of every member
clear_member_schedules_all(members, index, file, member_name, io) ==
  IF ~HasMember(members, member_name)
  THEN Outcome(members, index, file,
               Result("clear_member_schedules", FALSE, "MemberNotFound", "none", 0))
  ELSE LET changed == [k \in 1 .. Len(members) |->
                         [members[k] EXCEPT !.schedules = <<>>]]
       IN  Outcome(changed, index, save_data(file, changed, io),
                   Result("clear_member_schedules", TRUE, "none", "none", 1))

clear_member_schedules(members, index, file, member_name, io) ==
  IF ~HasMember(members, member_name)
  THEN Outcome(members, index, file,
               Result("clear_member_schedules", FALSE, "MemberNotFound", "none", 0))
  ELSE LET changed == SetSchedules(members, member_name, <<>>)
       IN  Outcome(changed, index, save_data(file, changed, io),
                   Result("clear_member_schedules", TRUE, "none", "none", 1))

\* the failure a caught exception is reported as: ValueError has its own
\* handler, every other exception falls to "except Exception"
Reported(raised) == IF raised = "ValueError" THEN "IntervalNotFound" ELSE "Exception"

\* an update that advances the allocator as add_member does
update_schedule_recoloring(members, index, file, member_name, old_schedule, old_index, new_schedule, io) ==
  IF ~HasMember(members, member_name)
  THEN Outcome(members, index, file,
               Result("update_schedule", FALSE, "MemberNotFound", "none", 0))
  ELSE LET schedules == Member(members, member_name).schedules
           removed == RemoveSchedule(schedules, old_schedule, old_index)
           changed == SetSchedules(members, member_name,
                        ListSort(Append(removed.list, new_schedule)))
           next == get_next_color(index).index
       IN  IF removed.raised = "none"
           THEN Outcome(changed, next, save_data(file, changed, io),
                        Result("update_schedule", TRUE, "none", removed.via, 1))
           ELSE Outcome(members, index, file,
                        Result("update_schedule", FALSE, Reported(removed.raised),
                               "none", 0))

update_schedule(members, index, file, member_name, old_schedule, old_index, new_schedule, io) ==
  IF ~HasMember(members, member_name)
  THEN Outcome(members, index, file,
               Result("update_schedule", FALSE, "MemberNotFound", "none", 0))
  ELSE LET schedules == Member(members, member_name).schedules
           removed == RemoveSchedule(schedules, old_schedule, old_index)
           changed == SetSchedules(members, member_name,
                        ListSort(Append(removed.list, new_schedule)))
       IN  IF removed.raised = "none"
           THEN Outcome(changed, index, save_data(file, changed, io),
                        Result("update_schedule", TRUE, "none", removed.via, 1))
           ELSE Outcome(members, index, file,
                        Result("update_schedule", FALSE, Reported(removed.raised),
                               "none", 0))

delete_schedule(members, index, file, member_name, schedule_to_delete, original_index, io) ==
  IF ~HasMember(members, member_name)
  THEN Outcome(members, index, file,
               Result("delete_schedule", FALSE, "MemberNotFound", "none", 0))
  ELSE LET schedules == Member(members, member_name).schedules
           removed == RemoveSchedule(schedules, schedule_to_delete, original_index)
           changed == SetSchedules(members, member_name, removed.list)
       IN  IF removed.raised = "none"
           THEN Outcome(changed, index, save_data(file, changed, io),
                        Result("delete_schedule", TRUE, "none", removed.via, 1))
           ELSE Outcome(members, index, file,
                        Result("delete_schedule", FALSE, Reported(removed.raised),
                               "none", 0))

(***************************************************************************)
(* ChartCanvas: the drawing.  Coordinates are whole pixels; the window is  *)
(* as wide as makes an hour HOUR_WIDTH pixels.  Of the items on the canvas *)
(* the bars are kept: each with the member and the index it was drawn for, *)
(* the interval it was drawn from, and its left and right edge.  An item   *)
(* id is the pair of the drawing it belongs to and its position in that    *)
(* drawing; delete("all") ends a drawing, and the ids of its items         *)
(* designate nothing from then on.  pressed is the state of button 1 over  *)
(* the canvas: "up", "down", or "lost" when the drawing it was pressed on  *)
(* has been deleted since, and events counts the events the window has    *)
(* handled.                                                                *)
(***************************************************************************)
MARGIN_LEFT == 80
RIGHT_MARGIN == 20
RESIZE_HANDLE_WIDTH == 10
\* get_chart_params in a window 580 pixels wide, zoom_level 1.0
HOUR_WIDTH == (580 - MARGIN_LEFT - RIGHT_MARGIN) \div 24
CHART_START_X == MARGIN_LEFT
CHART_END_X == CHART_START_X + 24 * HOUR_WIDTH

\* the two versions of chart_canvas.py
Modules == {"gui", "FamilyscheduleApp"}

\* no item
NoItem == <<>>

\* the chart is not part of the run
NoCanvas == [module |-> "none", drawing |-> 0, bars |-> <<>>, pressed |-> "up", events |-> 0]

\* drag_data as __init__ and end_drag set it.  None is written "None" for
\* mode and member_name, <<>> for original_schedule and -1 for the index
\* (original_index, original_schedule_tuple_index in gui/chart_canvas.py);
\* start_y and the original coordinates are never read and are left out
IdleDrag ==
  [item |-> NoItem, mode |-> None, start_x |-> 0, x_offset |-> 0,
   member_name |-> None, original_schedule |-> <<>>, original_index |-> -1]

\* round(n / d) of Python 3 for integers n and d > 0: to the nearest
\* integer, a tie to the even one
Round(n, d) ==
  LET q == n \div d
      r == n % d
  IN  IF 2 * r < d THEN q
      ELSE IF 2 * r > d THEN q + 1
      ELSE IF q % 2 = 0 THEN q ELSE q + 1

Max(a, b) == IF a >= b THEN a ELSE b
Min(a, b) == IF a <= b THEN a ELSE b

\* the bars update_gantt_chart draws for one member, in list order
BarsOf(module, m) ==
  [j \in 1 .. Len(m.schedules) |->
     LET x1 == CHART_START_X + m.schedules[j][1] * HOUR_WIDTH
         x2 == CHART_START_X + m.schedules[j][2] * HOUR_WIDTH
     IN  [member_name |-> m.name, index |-> j - 1, schedule |-> m.schedules[j],
          x1 |-> IF module = "gui" THEN x1 ELSE Max(CHART_START_X, x1),
          x2 |-> IF module = "gui" THEN x2 ELSE Min(CHART_END_X, x2)]]

RECURSIVE Bars(_, _)
\* the bars of all members, in member order
Bars(module, members) ==
  IF members = <<>> THEN <<>>
  ELSE BarsOf(module, Head(members)) \o Bars(module, Tail(members))

\* the drawing that follows: its ids differ from the id that drag_data
\* holds, if it holds one
NextDrawing(item) == IF item = NoItem THEN 0 ELSE 1 - item[1]

\* update_gantt_chart: delete("all") and draw from the store
update_gantt_chart(c, members, item) ==
  [c EXCEPT !.drawing = NextDrawing(item),
            !.bars = Bars(c.module, members),
            !.pressed = IF c.pressed = "up" THEN "up" ELSE "lost"]

\* the item designates a bar of the drawing on the canvas
Exists(c, item) ==
  item # NoItem /\ item[1] = c.drawing /\ item[2] \in 1 .. Len(c.bars)

(***************************************************************************)
(* ChartCanvas: the handlers of the pointer.  Each is a function of the    *)
(* canvas, drag_data, the store and the event, and gives drag_data and the *)
(* canvas after the handler, and the exception that ended it, if any (Tk   *)
(* reports the exception of a handler and goes on with the next event).    *)
(***************************************************************************)
Handled(c, d, raised) == [canvas |-> c, drag_data |-> d, raised |-> raised]

\* the item find_closest can give for a pointer at x over bar b: the
\* topmost one there.  The text is drawn over the middle of the bar; in
\* FamilyscheduleApp, on bars of at least two handle widths, the handles
\* are drawn over both ends after the text, the right one last
Parts(module, b, x) ==
  LET body == IF 2 * x = b.x1 + b.x2 THEN {"bar", "text"} ELSE {"bar"}
  IN  IF x < b.x1 \/ x > b.x2 THEN {}
      ELSE IF module = "gui" \/ b.x2 - b.x1 < 2 * RESIZE_HANDLE_WIDTH THEN body
      ELSE IF x >= b.x2 - RESIZE_HANDLE_WIDTH THEN {"handle_right"}
      ELSE IF x <= b.x1 + RESIZE_HANDLE_WIDTH THEN {"handle_left"}
      ELSE body

\* name.split("_") for the names of the model
Segments(name) == IF name = "a_b" THEN <<"a", "b">> ELSE <<name>>

\* gui/chart_canvas.py: start_drag with event.x = x on the part of bar k
\* that find_closest gave.  The tag schedule_bar_<name>_<start>_<end>_<j>
\* is split at "_": parts[2] is the name up to its first "_", and with a
\* "_" in the name parts[3] is text, int() raises ValueError and the
\* handler gives the item up
start_drag(c, d, members, k, part, x) ==
  LET b == c.bars[k]
      captured == [d EXCEPT !.item = <<c.drawing, k>>,
                            !.start_x = x,
                            !.member_name = Segments(b.member_name)[1],
                            !.original_schedule = b.schedule,
                            !.original_index = b.index]
      mode == IF (IF x >= b.x1 THEN x - b.x1 ELSE b.x1 - x) < RESIZE_HANDLE_WIDTH
              THEN "resize_left"
              ELSE IF (IF x >= b.x2 THEN x - b.x2 ELSE b.x2 - x) < RESIZE_HANDLE_WIDTH
              THEN "resize_right"
              ELSE "move"
  IN  IF Len(Segments(b.member_name)) > 1
      THEN Handled(c, [d EXCEPT !.item = NoItem, !.start_x = x,
                                !.member_name = Segments(b.member_name)[1]],
                   "none")
      ELSE IF part = "text"
      THEN \* the coordinates of a text are two numbers: the unpacking
           \* raises ValueError, which start_drag catches
           Handled(c, [captured EXCEPT !.item = NoItem], "none")
      ELSE Handled(c, [captured EXCEPT !.mode = mode], "none")

\* FamilyscheduleApp/gui/chart_canvas.py: drag_start.  The member is
\* read from the tag member_<name> as tag.split("_")[1], the name up to
\* its first "_"
drag_start(c, d, members, k, part, x) ==
  LET b == c.bars[k]
      member_name == Segments(b.member_name)[1]
      schedules == Member(members, member_name).schedules
  IN  IF ~HasMember(members, member_name)
      THEN Handled(c, d, "KeyError")
      ELSE IF ~(0 <= b.index /\ b.index < Len(schedules))
      THEN Handled(c, d, "none")
      ELSE IF part = "text"
      THEN Handled(c, d, "ValueError")
      ELSE Handled(c,
                   [item |-> <<c.drawing, k>>,
                    mode |-> CASE part = "handle_left" -> "resize_left"
                               [] part = "handle_right" -> "resize_right"
                               [] OTHER -> "move",
                    start_x |-> x,
                    x_offset |-> x - b.x1,
                    member_name |-> member_name,
                    original_schedule |-> schedules[b.index + 1],
                    original_index |-> b.index],
                   "none")

\* the canvas with the edges of the bar item set
Coords(c, item, x1, x2) ==
  [c EXCEPT !.bars[item[2]].x1 = x1, !.bars[item[2]].x2 = x2]

\* gui/chart_canvas.py: drag_motion with event.x = x.  On an item that is
\* gone, move does nothing and the resize branches raise at
\* current_coords[0]
drag_motion_gui(c, d, x) ==
  LET dx == x - d.start_x
      b == c.bars[d.item[2]]
      moved == [d EXCEPT !.start_x = x]
  IN  IF d.item = NoItem \/ d.mode = None
      THEN Handled(c, d, "none")
      ELSE IF ~Exists(c, d.item)
      THEN IF d.mode = "move"
           THEN Handled(c, moved, "none")
           ELSE Handled(c, d, "IndexError")
      ELSE CASE d.mode = "move" ->
                  Handled(Coords(c, d.item, b.x1 + dx, b.x2 + dx), moved, "none")
             [] d.mode = "resize_left" ->
                  Handled(Coords(c, d.item,
                                 Min(Max(CHART_START_X, b.x1 + dx), b.x2 - HOUR_WIDTH),
                                 b.x2),
                          moved, "none")
             [] OTHER ->
                  Handled(Coords(c, d.item, b.x1,
                                 Max(Min(CHART_END_X, b.x2 + dx), b.x1 + HOUR_WIDTH)),
                          moved, "none")

\* the hours the move branch of drag_motion sets the bar to: snapped
\* start, the duration of the original interval kept, within 0 and 24
MoveCandidate(d, x) ==
  LET snapped == Round(x - d.x_offset - CHART_START_X, HOUR_WIDTH)
      duration == d.original_schedule[2] - d.original_schedule[1]
      start == Max(0, snapped)
  IN  IF start + duration > 24
      THEN IF 24 - duration < 0
           THEN <<0, duration>>
           ELSE <<24 - duration, 24>>
      ELSE <<start, start + duration>>

\* FamilyscheduleApp/gui/chart_canvas.py: drag_motion with event.x = x.
\* The coordinates of an item that is gone are an empty list, and the
\* unpacking raises ValueError
drag_motion(c, d, x) ==
  LET b == c.bars[d.item[2]]
      snapped == CHART_START_X + Round(x - CHART_START_X, HOUR_WIDTH) * HOUR_WIDTH
  IN  IF d.item = NoItem
      THEN Handled(c, d, "none")
      ELSE IF ~Exists(c, d.item)
      THEN Handled(c, d, "ValueError")
      ELSE CASE d.mode = "move" ->
                  Handled(Coords(c, d.item,
                                 CHART_START_X + MoveCandidate(d, x)[1] * HOUR_WIDTH,
                                 CHART_START_X + MoveCandidate(d, x)[2] * HOUR_WIDTH),
                          d, "none")
             [] d.mode = "resize_left" ->
                  Handled(Coords(c, d.item,
                                 Max(CHART_START_X,
                                     IF snapped >= b.x2 - HOUR_WIDTH
                                     THEN b.x2 - HOUR_WIDTH ELSE snapped),
                                 b.x2),
                          d, "none")
             [] d.mode = "resize_right" ->
                  Handled(Coords(c, d.item, b.x1,
                                 Min(CHART_END_X,
                                     IF snapped <= b.x1 + HOUR_WIDTH
                                     THEN b.x1 + HOUR_WIDTH ELSE snapped)),
                          d, "none")
             [] OTHER -> Handled(c, d, "none")

\* what end_drag leaves: the canvas, drag_data, the exception that ended
\* it, whether update_schedule was called, and the store, allocator index,
\* file and result after it
Ended(c, d, raised, called, out) ==
  [canvas |-> c, drag_data |-> d, raised |-> raised, called |-> called, out |-> out]

\* no store call: the store as it is
NoCall(members, index, file, op, raised) ==
  Outcome(members, index, file, Result(op, raised = "none", raised, "none", 0))

\* gui/chart_canvas.py: the interval end_drag computes from the edges of
\* the bar
NewScheduleGui(b, mode) ==
  LET start == Max(0, Round(b.x1 - CHART_START_X, HOUR_WIDTH))
      end == Min(24, Round(b.x2 - CHART_START_X, HOUR_WIDTH))
  IN  IF start >= end
      THEN IF mode = "resize_left"
           THEN <<Max(0, end - 1), Min(24, end)>>
           ELSE <<Max(0, start), Min(24, start + 1)>>
      ELSE <<start, end>>

\* gui/chart_canvas.py: end_drag.  The chart is drawn again only when the
\* interval has not changed
end_drag_gui(c, d, members, index, file, io) ==
  LET new_schedule == NewScheduleGui(c.bars[d.item[2]], d.mode)
      out == update_schedule(members, index, file, d.member_name,
                             d.original_schedule, d.original_index, new_schedule, io)
  IN  IF d.item = NoItem \/ d.mode = None
      THEN Ended(c, d, "none", FALSE, NoCall(members, index, file, "end_drag", "none"))
      ELSE IF ~Exists(c, d.item)
      THEN Ended(c, d, "IndexError", FALSE,
                 NoCall(members, index, file, "end_drag", "IndexError"))
      ELSE IF new_schedule = d.original_schedule
      THEN Ended(update_gantt_chart(c, members, d.item), IdleDrag, "none", FALSE,
                 NoCall(members, index, file, "end_drag", "none"))
      ELSE Ended(c, IdleDrag, "none", TRUE, out)

\* FamilyscheduleApp/gui/chart_canvas.py: the interval end_drag computes
NewSchedule(b) ==
  LET start == Max(0, Round(b.x1 - CHART_START_X, HOUR_WIDTH))
      end == Min(24, Round(b.x2 - CHART_START_X, HOUR_WIDTH))
  IN  IF end <= start THEN <<start, start + 1>> ELSE <<start, end>>

\* an end_drag that calls update_schedule a second time
end_drag_twice(c, d, members, index, file, io) ==
  LET new_schedule == NewSchedule(c.bars[d.item[2]])
      first == update_schedule(members, index, file, d.member_name,
                               d.original_schedule, d.original_index, new_schedule, io)
      out == update_schedule(first.members, first.index, first.file, d.member_name,
                             d.original_schedule, d.original_index, new_schedule, io)
  IN  IF d.item = NoItem
      THEN Ended(c, d, "none", FALSE, NoCall(members, index, file, "end_drag", "none"))
      ELSE IF ~Exists(c, d.item)
      THEN Ended(c, d, "ValueError", FALSE,
                 NoCall(members, index, file, "end_drag", "ValueError"))
      ELSE IF new_schedule = d.original_schedule
      THEN Ended(update_gantt_chart(c, members, NoItem), IdleDrag, "none", FALSE,
                 NoCall(members, index, file, "end_drag", "none"))
      ELSE Ended(update_gantt_chart(c, out.members, NoItem), IdleDrag, "none", TRUE, out)

\* FamilyscheduleApp/gui/chart_canvas.py: end_drag.  The chart is drawn
\* again from the store at the end, after drag_data is reset
end_drag(c, d, members, index, file, io) ==
  LET new_schedule == NewSchedule(c.bars[d.item[2]])
      out == update_schedule(members, index, file, d.member_name,
                             d.original_schedule, d.original_index, new_schedule, io)
  IN  IF d.item = NoItem
      THEN Ended(c, d, "none", FALSE, NoCall(members, index, file, "end_drag", "none"))
      ELSE IF ~Exists(c, d.item)
      THEN Ended(c, d, "ValueError", FALSE,
                 NoCall(members, index, file, "end_drag", "ValueError"))
      ELSE IF new_schedule = d.original_schedule
      THEN Ended(update_gantt_chart(c, members, NoItem), IdleDrag, "none", FALSE,
                 NoCall(members, index, file, "end_drag", "none"))
      ELSE Ended(update_gantt_chart(c, out.members, NoItem), IdleDrag, "none", TRUE, out)

(***************************************************************************)
(* Initial states: a DataManager constructed when there is no data file,   *)
(* and the empty store a session is in after members were added and        *)
(* deleted again (the allocator has advanced to its last position, the     *)
(* file holds an empty dict).                                              *)
(***************************************************************************)
\* the file system accepts every write
WriteOutcomes == {"ok"}

NoResult == Result("none", TRUE, "none", "none", 0)

StartIndexes == {0, Len(CHART_COLORS) - 1}

Init ==
  /\ family_members = <<>>
  /\ current_color_index \in StartIndexes
  /\ disk = IF current_color_index = 0 THEN NoFile ELSE Serialize(<<>>)
  /\ result = NoResult
  /\ canvas = NoCanvas
  /\ drag_data = IdleDrag

(***************************************************************************)
(* Actions: one per operation.  A handler of the user interface calls the  *)
(* operation from the event loop; the operation runs to its return.        *)
(***************************************************************************)
\* no handler is running and no message is shown
InEventLoop == result = NoResult

Perform(out) ==
  /\ InEventLoop
  /\ family_members' = out.members
  /\ current_color_index' = out.index
  /\ disk' = out.file
  /\ result' = out.result
  /\ UNCHANGED <<canvas, drag_data>>

\* members are added while the allocator is at one of the start indexes;
\* this keeps the colors in use to two
AddMember(name, io) ==
  /\ HasMember(family_members, name) \/ current_color_index \in StartIndexes
  /\ Perform(add_member(family_members, current_color_index, disk, name, io))

DeleteMember(name, io) ==
  Perform(delete_member(family_members, current_color_index, disk, name, io))

AddSchedule(name, start_hour, end_hour, io) ==
  /\ ~HasMember(family_members, name) \/ TotalLen(family_members) < MaxLen
  /\ Perform(add_schedule(family_members, current_color_index, disk, name,
                          start_hour, end_hour, io))

ClearMemberSchedules(name, io) ==
  Perform(clear_member_schedules(family_members, current_color_index, disk, name, io))

UpdateSchedule(name, old_schedule, old_index, new_schedule, io) ==
  Perform(update_schedule(family_members, current_color_index, disk, name,
                          old_schedule, old_index, new_schedule, io))

DeleteSchedule(name, schedule_to_delete, original_index, io) ==
  Perform(delete_schedule(family_members, current_color_index, disk, name,
                          schedule_to_delete, original_index, io))

\* the caller shows the returned message and goes back to the event loop
messagebox ==
  /\ ~InEventLoop
  /\ result' = NoResult
  /\ UNCHANGED <<family_members, current_color_index, disk, canvas, drag_data>>

\* DataManager(): a new process constructs the store from the file
DataManager ==
  /\ InEventLoop
  /\ LET loaded == load_data(disk)
     IN  /\ family_members' = loaded.members
         /\ current_color_index' = loaded.index
         /\ result' = Result("load_data", TRUE, loaded.raised, "none", 0)
  /\ UNCHANGED <<disk, canvas, drag_data>>

Next ==
  \/ \E name \in Names, io \in WriteOutcomes : AddMember(name, io)
  \/ \E name \in Names, io \in WriteOutcomes : DeleteMember(name, io)
  \/ \E name \in Names, s \in Hours, e \in Hours, io \in WriteOutcomes :
       AddSchedule(name, s, e, io)
  \/ \E name \in Names, io \in WriteOutcomes : ClearMemberSchedules(name, io)
  \/ \E name \in Names, old \in Intervals, i \in IndexArgs, new \in Intervals,
        io \in WriteOutcomes :
       UpdateSchedule(name, old, i, new, io)
  \/ \E name \in Names, old \in Intervals, i \in IndexArgs, io \in WriteOutcomes :
       DeleteSchedule(name, old, i, io)
  \/ messagebox
  \/ DataManager

Spec == Init /\ [][Next]_vars

(***************************************************************************)
(* The store on a file system whose writes can fail: open(.., 'w') raises  *)
(* (the file is left as it was) or json.dump raises (the file is left      *)
(* incomplete).  The calls are the ones the user interface issues: the     *)
(* schedule form passes a validated range, the chart passes the index and  *)
(* the value of a bar it has drawn.  A write fails only when the file      *)
(* held the store before the call, so at most one write in a row is lost.  *)
(***************************************************************************)
FailedWrites == {"open_fails", "dump_fails"}

InSync == disk = NoFile \/ disk = Serialize(family_members)

WriteOutcomesNow == IF InSync THEN WriteOutcomes \cup FailedWrites ELSE WriteOutcomes

\* set_schedule_gui: start < end is checked before add_schedule is called
ValidIntervals == {x \in Intervals : x[1] < x[2]}

\* the bar at index i of member name shows interval x
Drawn(name, i, x) ==
  /\ HasMember(family_members, name)
  /\ i >= 0
  /\ i < Len(Member(family_members, name).schedules)
  /\ Member(family_members, name).schedules[i + 1] = x

FailNext ==
  \/ \E name \in Names, io \in WriteOutcomesNow : AddMember(name, io)
  \/ \E name \in Names, io \in WriteOutcomesNow : DeleteMember(name, io)
  \/ \E name \in Names, x \in ValidIntervals, io \in WriteOutcomesNow :
       AddSchedule(name, x[1], x[2], io)
  \/ \E name \in Names, io \in WriteOutcomesNow : ClearMemberSchedules(name, io)
  \/ \E name \in Names, old \in Intervals, i \in IndexArgs, new \in ValidIntervals,
        io \in WriteOutcomesNow :
       Drawn(name, i, old) /\ UpdateSchedule(name, old, i, new, io)
  \/ \E name \in Names, old \in Intervals, i \in IndexArgs, io \in WriteOutcomesNow :
       Drawn(name, i, old) /\ DeleteSchedule(name, old, i, io)
  \/ messagebox
  \/ DataManager

FailSpec == Init /\ [][FailNext]_vars

(***************************************************************************)
(* Startup from a file that the program did not write: members without     *)
(* color or with a color outside the palette, members without schedules,   *)
(* values that are not objects, schedules that are not arrays, text that   *)
(* is not JSON, and files of ten members that use up the palette.          *)
(***************************************************************************)
StoredColors == {CHART_COLORS[1], CHART_COLORS[2], CHART_COLORS[3], "black"}

StoredSchedules ==
  {<<>>, <<JsonArray(<<0, 1>>)>>, <<JsonArray(<<0, 1>>), [number |-> 5]>>}

\* the objects a member name can be mapped to
StoredObjects(name) ==
  {[name |-> name, schedules |-> l, color |-> c] :
     l \in StoredSchedules, c \in StoredColors}
  \cup {[name |-> name, schedules |-> l] : l \in StoredSchedules}
  \cup {[name |-> name, color |-> c] : c \in StoredColors}
  \cup {[name |-> name]}

StoredEntries(name) == StoredObjects(name) \cup {[name |-> name, value |-> 5]}

TenNames == <<"a", "b", "c", "d", "e", "f", "g", "h", "i", "j">>

\* ten members, the k-th with the k-th palette color, but for the member at
\* position hole (if any), whose color is outside the palette
TenMembers(hole) ==
  [kind |-> "json",
   entries |-> [k \in 1 .. Len(CHART_COLORS) |->
                  [name |-> TenNames[k], schedules |-> <<>>,
                   color |-> IF k = hole THEN "black" ELSE CHART_COLORS[k]]]]

Files ==
  {NoFile, CorruptFile, ArrayFile}
  \cup {[kind |-> "json", entries |-> <<>>]}
  \cup {[kind |-> "json", entries |-> <<e>>] :
          e \in StoredEntries("a") \cup StoredEntries("b")}
  \cup {[kind |-> "json", entries |-> <<e, f>>] :
          e \in StoredEntries("a"), f \in StoredEntries("b")}
  \cup {[kind |-> "json", entries |-> <<f, e>>] :
          e \in StoredEntries("a"), f \in StoredEntries("b")}
  \cup {TenMembers(hole) : hole \in 0 .. Len(CHART_COLORS)}

\* the process has not started yet
LoadInit ==
  /\ family_members = <<>>
  /\ current_color_index = 0
  /\ disk \in Files
  /\ result = NoResult
  /\ canvas = NoCanvas
  /\ drag_data = IdleDrag

\* the names added after a load: the last is in none of the files
NamesAfterLoad == Names \cup {"k"}

\* the store and the allocator are as the load of the file leaves them
Loaded ==
  /\ family_members = load_data(disk).members
  /\ current_color_index = load_data(disk).index

\* add_member on the store as loaded, wherever the allocator is
AddMemberLoaded(name, io) ==
  /\ result.op = "none"
  /\ Loaded
  /\ family_members # <<>>
  /\ Perform(add_member(family_members, current_color_index, disk, name, io))

LoadNext ==
  \/ DataManager
  \/ messagebox
  \/ \E name \in Names, io \in WriteOutcomes : AddMember(name, io)
  \/ \E name \in NamesAfterLoad, io \in WriteOutcomes : AddMemberLoaded(name, io)

LoadSpec == LoadInit /\ [][LoadNext]_vars

(***************************************************************************)
(* The application window: the forms of app.py and the chart, with the     *)
(* pointer pressed, moved and released over the bars.  In gui/ the         *)
(* handlers of the drag are bound to the tags of the bars, and a motion or *)
(* a release is delivered to them only while the item the button was       *)
(* pressed on exists; in FamilyscheduleApp/gui/ they are bound to the      *)
(* canvas and every motion and release over it is delivered.               *)
(***************************************************************************)
\* event.x of the pointer events: every half hour of the first hours
PointerXs ==
  {CHART_START_X + k * (HOUR_WIDTH \div 2) : k \in 0 .. (2 * (MaxHour + 1))}

ChartInit ==
  /\ family_members = <<>>
  /\ current_color_index \in StartIndexes
  /\ disk = IF current_color_index = 0 THEN NoFile ELSE Serialize(<<>>)
  /\ result = NoResult
  /\ canvas \in {[NoCanvas EXCEPT !.module = m] : m \in Modules}
  /\ drag_data = IdleDrag

\* the window handles one more event
Event(c) == [c EXCEPT !.events = c.events + 1]

Delivered == canvas.module = "FamilyscheduleApp" \/ canvas.pressed = "down"

StoreUnchanged == UNCHANGED <<family_members, current_color_index, disk>>

\* a handler that takes a color from the allocator as it runs
RanAllocating(op, h) ==
  /\ drag_data' = h.drag_data
  /\ result' = Result(op, h.raised = "none", h.raised, "none", 0)
  /\ current_color_index' = get_next_color(current_color_index).index
  /\ UNCHANGED <<family_members, disk>>

\* the handler ran and touched only the chart
Ran(op, h) ==
  /\ drag_data' = h.drag_data
  /\ result' = Result(op, h.raised = "none", h.raised, "none", 0)
  /\ StoreUnchanged

\* <Button-1> over bar k
PointerDown(k, part, x) ==
  /\ canvas.events < MaxEvents
  /\ canvas.pressed = "up"
  /\ part \in Parts(canvas.module, canvas.bars[k], x)
  /\ LET h == IF canvas.module = "gui"
              THEN start_drag(canvas, drag_data, family_members, k, part, x)
              ELSE drag_start(canvas, drag_data, family_members, k, part, x)
     IN  /\ canvas' = Event([h.canvas EXCEPT !.pressed = "down"])
         /\ Ran("drag_start", h)

\* <B1-Motion>
PointerMove(x) ==
  /\ canvas.events < MaxEvents
  /\ canvas.pressed # "up"
  /\ Delivered
  /\ LET h == IF canvas.module = "gui"
              THEN drag_motion_gui(canvas, drag_data, x)
              ELSE drag_motion(canvas, drag_data, x)
     IN  /\ canvas' = Event(h.canvas)
         /\ Ran("drag_motion", h)

\* <ButtonRelease-1>
PointerUp(io) ==
  /\ canvas.events < MaxEvents
  /\ canvas.pressed # "up"
  /\ IF Delivered
     THEN LET h == IF canvas.module = "gui"
                   THEN end_drag_gui(canvas, drag_data, family_members,
                                     current_color_index, disk, io)
                   ELSE end_drag(canvas, drag_data, family_members,
                                 current_color_index, disk, io)
          IN  /\ canvas' = Event([h.canvas EXCEPT !.pressed = "up"])
              /\ drag_data' = h.drag_data
              /\ family_members' = h.out.members
              /\ current_color_index' = h.out.index
              /\ disk' = h.out.file
              /\ result' = h.out.result
     ELSE /\ canvas' = Event([canvas EXCEPT !.pressed = "up"])
          /\ result' = Result("none", TRUE, "none", "none", 0)
          /\ UNCHANGED drag_data
          /\ StoreUnchanged

\* <Configure>: on_resize, on_canvas_configure
Configure ==
  /\ canvas.events < MaxEvents
  /\ canvas' = Event(update_gantt_chart(canvas, family_members, drag_data.item))
  /\ result' = Result("update_gantt_chart", TRUE, "none", "none", 0)
  /\ UNCHANGED drag_data
  /\ StoreUnchanged

\* a form handler of app.py has called the store: the chart is drawn again
\* if the call succeeded
Form(out) ==
  /\ canvas.events < MaxEvents
  /\ family_members' = out.members
  /\ current_color_index' = out.index
  /\ disk' = out.file
  /\ result' = out.result
  /\ canvas' = Event(IF out.result.success
                     THEN update_gantt_chart(canvas, out.members, drag_data.item)
                     ELSE canvas)
  /\ UNCHANGED drag_data

add_member_gui(name, io) ==
  /\ HasMember(family_members, name) \/ current_color_index \in StartIndexes
  /\ Form(add_member(family_members, current_color_index, disk, name, io))

\* the member is the one selected in the list box, the range is validated
set_schedule_gui(name, start_hour, end_hour, io) ==
  /\ HasMember(family_members, name)
  /\ TotalLen(family_members) < MaxLen
  /\ 0 <= start_hour /\ start_hour <= 23
  /\ 0 <= end_hour /\ end_hour <= 24
  /\ start_hour < end_hour
  /\ Form(add_schedule(family_members, current_color_index, disk, name,
                       start_hour, end_hour, io))

\* the hours typed into the form and into the edit dialog
FormHours == 0 .. (MaxHour + 1)

\* the ranges both accept: 0 <= start <= 23, end <= 24, start < end
FormIntervals == {x \in FormHours \X FormHours : x[1] < x[2] /\ x[1] <= 23 /\ x[2] <= 24}

\* what the commands of the posted menu are bound to
Menu(member_name, schedule, index) ==
  [posted |-> TRUE, member_name |-> member_name, schedule |-> schedule, index |-> index]

NoMenu == [posted |-> FALSE, member_name |-> None, schedule |-> <<>>, index |-> -1]

\* gui/chart_canvas.py show_context_menu: the bar and its label carry the
\* tag; member, interval and index are parsed from the tag
show_context_menu_gui(c, k, part) ==
  LET b == c.bars[k]
  IN  IF Len(Segments(b.member_name)) > 1
      THEN NoMenu
      ELSE Menu(b.member_name, b.schedule, b.index)

\* FamilyscheduleApp/gui/chart_canvas.py show_context_menu: only the bar
\* carries a schedule_bar_ tag; the interval is read from the store
show_context_menu(c, members, k, part) ==
  LET b == c.bars[k]
      member_name == Segments(b.member_name)[1]
      schedules_for_member == IF HasMember(members, member_name)
                              THEN Member(members, member_name).schedules
                              ELSE <<>>
  IN  IF part # "bar"
      THEN NoMenu
      ELSE IF 0 <= b.index /\ b.index < Len(schedules_for_member)
      THEN Menu(member_name, schedules_for_member[b.index + 1], b.index)
      ELSE NoMenu

\* <Button-3> over bar k, with no button held
Posted(k, part, x) ==
  LET menu == IF canvas.module = "gui"
              THEN show_context_menu_gui(canvas, k, part)
              ELSE show_context_menu(canvas, family_members, k, part)
  IN  IF /\ canvas.events < MaxEvents
         /\ canvas.pressed = "up"
         /\ part \in Parts(canvas.module, canvas.bars[k], x)
      THEN menu
      ELSE NoMenu

\* a command of the menu has called the store; FamilyscheduleApp draws the
\* chart again if the call succeeded, gui leaves the chart as it is
Chosen(out) ==
  /\ family_members' = out.members
  /\ current_color_index' = out.index
  /\ disk' = out.file
  /\ result' = out.result
  /\ canvas' = Event(IF out.result.success /\ canvas.module = "FamilyscheduleApp"
                     THEN update_gantt_chart(canvas, out.members, drag_data.item)
                     ELSE canvas)
  /\ UNCHANGED drag_data

\* "edit" of the menu, a valid range typed, OK
edit_schedule_dialog(k, part, x, new_schedule, io) ==
  LET menu == Posted(k, part, x)
  IN  /\ menu.posted
      /\ new_schedule \in FormIntervals
      /\ canvas.module = "gui" => new_schedule # menu.schedule
      /\ Chosen(update_schedule(family_members, current_color_index, disk,
                                menu.member_name, menu.schedule, menu.index,
                                new_schedule, io))

\* "delete" of the menu, confirmed
delete_schedule_from_chart(k, part, x, io) ==
  LET menu == Posted(k, part, x)
  IN  /\ menu.posted
      /\ Chosen(delete_schedule(family_members, current_color_index, disk,
                                menu.member_name, menu.schedule, menu.index, io))

\* the member is the one selected in the list box, the question is answered
\* with yes
clear_schedule_gui(name, io) ==
  /\ HasMember(family_members, name)
  /\ Form(clear_member_schedules(family_members, current_color_index, disk, name, io))

\* the names typed into the form: one without and one with a "_"
ChartNames == {"a", "a_b"}

ChartNext ==
  \/ \E name \in ChartNames, io \in WriteOutcomes : add_member_gui(name, io)
  \/ \E name \in ChartNames, s \in Hours, e \in Hours, io \in WriteOutcomes :
       set_schedule_gui(name, s, e, io)
  \/ Configure
  \/ \E k \in 1 .. Len(canvas.bars), x \in PointerXs,
        part \in {"bar", "text", "handle_left", "handle_right"} :
       PointerDown(k, part, x)
  \/ \E x \in PointerXs : PointerMove(x)
  \/ \E io \in WriteOutcomes : PointerUp(io)

ChartSpec == ChartInit /\ [][ChartNext]_vars

(***************************************************************************)
(* Gestures on one bar: the chart of one member with one interval in the   *)
(* last hours of the day, and the pointer pressed, moved and released over *)
(* it, inside and beyond the hours of the chart.                           *)
(***************************************************************************)
\* the last hours of the day
EdgeHours == (23 - MaxHour) .. 24

\* the intervals the add form accepts, of these hours
EdgeIntervals == {x \in EdgeHours \X EdgeHours : x[1] < x[2] /\ x[1] <= 23}

\* event.x: every half hour from the first of these hours to an hour and a
\* half after the last
EdgeXs ==
  {CHART_START_X + k * (HOUR_WIDTH \div 2) : k \in (2 * (23 - MaxHour)) .. 51}

\* the interval was entered in the form once or twice
GestureInit ==
  /\ \E x \in EdgeIntervals :
       \E schedules \in {<<x>>, <<x, x>>} :
         family_members = <<[name |-> "a", schedules |-> schedules,
                             color |-> CHART_COLORS[1]]>>
  /\ current_color_index = 1
  /\ disk = Serialize(family_members)
  /\ result = NoResult
  /\ \E m \in Modules :
       canvas = update_gantt_chart([NoCanvas EXCEPT !.module = m], family_members, NoItem)
  /\ drag_data = IdleDrag

GestureNext ==
  \/ \E k \in 1 .. Len(canvas.bars), x \in EdgeXs,
        part \in {"bar", "text", "handle_left", "handle_right"} :
       PointerDown(k, part, x)
  \/ \E x \in EdgeXs : PointerMove(x)
  \/ \E io \in WriteOutcomes : PointerUp(io)

GestureSpec == GestureInit /\ [][GestureNext]_vars

(***************************************************************************)
(* The chart with its context menu: a member whose interval has been       *)
(* entered in the form, then presses, moves and releases interleaved with  *)
(* form adds, dialog edits and deletes from the menu.                      *)
(***************************************************************************)
\* the events before the first press: the window was laid out, the member
\* and the interval were entered
EnteredEvents == 3

EditInit ==
  /\ \E x \in FormIntervals :
       family_members = <<[name |-> "a", color |-> CHART_COLORS[1], schedules |-> <<x>>]>>
  /\ current_color_index = 1
  /\ disk = Serialize(family_members)
  /\ result = NoResult
  /\ \E m \in Modules :
       canvas = update_gantt_chart([NoCanvas EXCEPT !.module = m, !.events = EnteredEvents],
                                   family_members, NoItem)
  /\ drag_data = IdleDrag

EditNext ==
  \/ \E x \in FormIntervals, io \in WriteOutcomes : set_schedule_gui("a", x[1], x[2], io)
  \/ \E io \in WriteOutcomes : clear_schedule_gui("a", io)
  \/ \E k \in 1 .. Len(canvas.bars), x \in PointerXs, part \in {"bar", "text"},
        new_schedule \in FormIntervals, io \in WriteOutcomes :
       edit_schedule_dialog(k, part, x, new_schedule, io)
  \/ \E k \in 1 .. Len(canvas.bars), x \in PointerXs, part \in {"bar", "text"},
        io \in WriteOutcomes :
       delete_schedule_from_chart(k, part, x, io)
  \/ \E k \in 1 .. Len(canvas.bars), x \in PointerXs,
        part \in {"bar", "text", "handle_left", "handle_right"} :
       PointerDown(k, part, x)
  \/ \E x \in PointerXs : PointerMove(x)
  \/ \E io \in WriteOutcomes : PointerUp(io)

EditSpec == EditInit /\ [][EditNext]_vars

(***************************************************************************)
(* The ColorManager on its own: a new allocator and calls of its two       *)
(* methods.  Here result records the last call: the method, whether calls  *)
(* are counted from construction or from the last call that set the index  *)
(* from used colors, the number of get_next_color calls since then, the    *)
(* color last returned, and the argument of the last index setting with    *)
(* the index it found.                                                     *)
(***************************************************************************)
PaletteColors == {CHART_COLORS[k] : k \in 1 .. Len(CHART_COLORS)}

UsedColorSets ==
  {used \in SUBSET PaletteColors : Cardinality(used) <= MaxUsed} \cup {PaletteColors}

ColorManagerInit ==
  /\ family_members = <<>>
  /\ disk = NoFile
  /\ current_color_index = 0
  /\ result = [op |-> "ColorManager", since |-> "ColorManager", calls |-> 0,
               color |-> "none", used_colors |-> {}, before |-> 0]
  /\ canvas = NoCanvas
  /\ drag_data = IdleDrag

GetNextColor ==
  /\ result.calls < (IF result.since = "ColorManager" THEN MaxCalls ELSE MaxCallsAfter)
  /\ LET next == get_next_color(current_color_index)
     IN  /\ current_color_index' = next.index
         /\ result' = [result EXCEPT !.op = "get_next_color",
                                     !.calls = @ + 1,
                                     !.color = next.color]
  /\ UNCHANGED <<family_members, disk, canvas, drag_data>>

SetCurrentColorIndex(used_colors) ==
  /\ current_color_index' = set_current_color_index_based_on_used_colors(used_colors)
  /\ result' = [op |-> "set_current_color_index_based_on_used_colors",
                since |-> "set_current_color_index_based_on_used_colors",
                calls |-> 0, color |-> "none",
                used_colors |-> used_colors, before |-> current_color_index]
  /\ UNCHANGED <<family_members, disk, canvas, drag_data>>

ColorManagerNext ==
  \/ GetNextColor
  \/ \E used_colors \in UsedColorSets : SetCurrentColorIndex(used_colors)

ColorManagerSpec == ColorManagerInit /\ [][ColorManagerNext]_vars

(***************************************************************************)
(* Properties                                                              *)
(***************************************************************************)
\* ascending by start
SortedByStart(list) ==
  \A i \in 1 .. Len(list), j \in 1 .. Len(list) : i < j => list[i][1] <= list[j][1]

\* The claims about a single call are stated for every call the event loop
\* can issue in a reachable state: the operation is applied to the current
\* store, allocator index and file, and its outcome is compared with the
\* claim.

\* the number of occurrences of x in list
Count(list, x) == Cardinality({k \in 1 .. Len(list) : list[k] = x})

One(b) == IF b THEN 1 ELSE 0

\* after holds what before holds, less one occurrence of each element of
\* gone, plus one of each element of come
Exchanged(before, after, gone, come) ==
  \A x \in Intervals :
    Count(after, x) = Count(before, x) - One(x \in gone) + One(x \in come)

\* every member but name is in after exactly as in before
OthersKept(before, after, name) ==
  \A n \in Names \ {name} :
    /\ HasMember(after, n) = HasMember(before, n)
    /\ HasMember(before, n) => Member(after, n) = Member(before, n)

\* the call saved once and the file holds the store it left
SavedOnce(out) == out.result.saves = 1 /\ out.file = Serialize(out.members)

\* the call left the store, the allocator and the file as they are and did
\* not save
NothingDone(out) ==
  /\ out.members = family_members
  /\ out.index = current_color_index
  /\ out.file = disk
  /\ out.result.saves = 0

Failed(out, error) == ~out.result.success /\ out.result.error = error

\* the intervals of a member of the store
SchedulesOf(name) == Member(family_members, name).schedules

\* index i designates an element of list that equals x
IdentityMatch(list, i, x) == i >= 0 /\ i < Len(list) /\ list[i + 1] = x

C2_UpdateAtIndex ==
  \A name \in Names, old \in Intervals, i \in IndexArgs, new \in Intervals,
     io \in WriteOutcomes :
    (/\ InEventLoop
     /\ HasMember(family_members, name)
     /\ IdentityMatch(SchedulesOf(name), i, old)) =>
      LET out == update_schedule(family_members, current_color_index, disk,
                                 name, old, i, new, io)
          after == Member(out.members, name).schedules
      IN  /\ out.result.success
          /\ Exchanged(SchedulesOf(name), after, {old}, {new})
          /\ SortedByStart(after)
          /\ SavedOnce(out)

\* an update has removed the interval at the index it was given and left a
\* list of two intervals
C2_Witness ==
  /\ result.op = "update_schedule"
  /\ result.success
  /\ result.via = "index"
  /\ result.saves = 1
  /\ \E k \in 1 .. Len(family_members) : Len(family_members[k].schedules) = 2

\* C3: for an existing member whose list holds an interval equal to old,
\* update_schedule succeeds for every index that is not an identity match
\* (negative, at least the list length, or designating another interval):
\* one interval equal to old is removed and new is added.
C3_UpdateByValue ==
  [][\A name \in Names, old \in Intervals, i \in IndexArgs, new \in Intervals,
        io \in WriteOutcomes :
       (/\ HasMember(family_members, name)
        /\ Count(SchedulesOf(name), old) > 0
        /\ ~IdentityMatch(SchedulesOf(name), i, old)
        /\ UpdateSchedule(name, old, i, new, io)) =>
         /\ result'.success
         /\ Exchanged(SchedulesOf(name), Member(family_members', name).schedules,
                      {old}, {new})]_vars

\* C4: when the member exists and no interval of its list equals old,
\* update_schedule fails with IntervalNotFound for every index and every
\* new interval, and changes and saves nothing.
C4_UpdateNotFound ==
  [][\A name \in Names, old \in Intervals, i \in IndexArgs, new \in Intervals,
        io \in WriteOutcomes :
       (/\ HasMember(family_members, name)
        /\ Count(SchedulesOf(name), old) = 0
        /\ UpdateSchedule(name, old, i, new, io)) =>
         /\ ~result'.success
         /\ result'.error = "IntervalNotFound"
         /\ result'.saves = 0
         /\ UNCHANGED <<family_members, current_color_index, disk>>]_vars

\* C5: delete_schedule(name, interval, index) on an existing member: if an
\* interval of the member equals the given one it succeeds for every index,
\* removes exactly one interval equal to it and saves once; if none equals
\* it, it fails with IntervalNotFound and changes nothing.
C5_DeleteSchedule ==
  [][\A name \in Names, x \in Intervals, i \in IndexArgs, io \in WriteOutcomes :
       (HasMember(family_members, name) /\ DeleteSchedule(name, x, i, io)) =>
         IF Count(SchedulesOf(name), x) > 0
         THEN /\ result'.success
              /\ Exchanged(SchedulesOf(name),
                           Member(family_members', name).schedules, {x}, {})
              /\ Len(Member(family_members', name).schedules)
                   = Len(SchedulesOf(name)) - 1
              /\ result'.saves = 1
              /\ disk' = Serialize(family_members')
         ELSE /\ ~result'.success
              /\ result'.error = "IntervalNotFound"
              /\ result'.saves = 0
              /\ UNCHANGED <<family_members, current_color_index, disk>>]_vars

\* C6: add_member with a name already in the store fails with
\* DuplicateMember and leaves the members, the allocator index and the file
\* unchanged, without a save.
C6_AddDuplicate ==
  \A name \in Names, io \in WriteOutcomes :
    (InEventLoop /\ HasMember(family_members, name)) =>
      LET out == add_member(family_members, current_color_index, disk, name, io)
      IN  Failed(out, "DuplicateMember") /\ NothingDone(out)

\* add_member has been refused in a store of two members that hold intervals
C6_Witness ==
  /\ result.op = "add_member"
  /\ result.error = "DuplicateMember"
  /\ Len(family_members) = 2
  /\ TotalLen(family_members) > 0

\* C7: add_member with a name not in the store succeeds, creates the member
\* with an empty list and the color at the allocator's index, advances the
\* index by one modulo the palette size, keeps every other member and saves
\* once.
C7_AddMember ==
  \A name \in Names, io \in WriteOutcomes :
    (InEventLoop /\ ~HasMember(family_members, name)) =>
      LET out == add_member(family_members, current_color_index, disk, name, io)
      IN  /\ out.result.success
          /\ HasMember(out.members, name)
          /\ Member(out.members, name).schedules = <<>>
          /\ Member(out.members, name).color = CHART_COLORS[current_color_index + 1]
          /\ out.index = IF current_color_index = Len(CHART_COLORS) - 1
                         THEN 0 ELSE current_color_index + 1
          /\ Len(out.members) = Len(family_members) + 1
          /\ OthersKept(family_members, out.members, name)
          /\ SavedOnce(out)

\* add_member has given out the last palette color and the index is back
\* at 0
C7_Witness ==
  /\ result.op = "add_member"
  /\ result.success
  /\ current_color_index = 0
  /\ family_members # <<>>
  /\ family_members[Len(family_members)].color = CHART_COLORS[Len(CHART_COLORS)]
  /\ family_members[Len(family_members)].schedules = <<>>

\* C8: delete_member, add_schedule, clear_member_schedules, update_schedule
\* and delete_schedule called with a name that is not in the store fail with
\* MemberNotFound and leave the members, the allocator index and the file
\* unchanged, without a save.
C8_MemberNotFound ==
  \A name \in Names, io \in WriteOutcomes :
    (InEventLoop /\ ~HasMember(family_members, name)) =>
      LET Refused(out) == Failed(out, "MemberNotFound") /\ NothingDone(out)
      IN  /\ Refused(delete_member(family_members, current_color_index, disk,
                                   name, io))
          /\ Refused(clear_member_schedules(family_members, current_color_index,
                                            disk, name, io))
          /\ \A x \in Intervals, i \in IndexArgs, new \in Intervals :
               /\ Refused(add_schedule(family_members, current_color_index, disk,
                                       name, x[1], x[2], io))
               /\ Refused(update_schedule(family_members, current_color_index,
                                          disk, name, x, i, new, io))
               /\ Refused(delete_schedule(family_members, current_color_index,
                                          disk, name, x, i, io))

\* an operation on a missing member has been refused while another member
\* holds intervals
C8_Witness ==
  /\ result.error = "MemberNotFound"
  /\ result.op \in {"delete_member", "add_schedule", "clear_member_schedules",
                    "update_schedule", "delete_schedule"}
  /\ Len(family_members) = 1
  /\ family_members[1].schedules # <<>>

\* C9: delete_member on an existing member removes the member with all its
\* intervals from the store and from the file, keeps every other member and
\* saves once.
C9_DeleteMember ==
  \A name \in Names, io \in WriteOutcomes :
    (InEventLoop /\ HasMember(family_members, name)) =>
      LET out == delete_member(family_members, current_color_index, disk, name, io)
      IN  /\ out.result.success
          /\ ~HasMember(out.members, name)
          /\ Len(out.members) = Len(family_members) - 1
          /\ OthersKept(family_members, out.members, name)
          /\ SavedOnce(out)
          /\ \A k \in 1 .. Len(out.file.entries) : out.file.entries[k].name # name

\* delete_member has removed one of two members; the other is left with its
\* intervals
C9_Witness ==
  /\ result.op = "delete_member"
  /\ result.success
  /\ Len(family_members) = 1
  /\ family_members[1].schedules # <<>>

\* C10: add_schedule on an existing member succeeds for every pair
\* (start, end), malformed pairs and pairs equal to a stored interval
\* included: the list becomes the previous list plus that pair, sorted, and
\* the call saves once.
C10_AddSchedule ==
  \A name \in Names, x \in Intervals, io \in WriteOutcomes :
    (InEventLoop /\ HasMember(family_members, name)) =>
      LET out == add_schedule(family_members, current_color_index, disk, name,
                              x[1], x[2], io)
          after == Member(out.members, name).schedules
      IN  /\ out.result.success
          /\ Exchanged(SchedulesOf(name), after, {}, {x})
          /\ SortedByStart(after)
          /\ SavedOnce(out)

\* add_schedule has added a malformed pair that the member already held
C10_Witness ==
  /\ result.op = "add_schedule"
  /\ result.success
  /\ \E k \in 1 .. Len(family_members) :
       LET list == family_members[k].schedules
       IN  Len(list) = 2 /\ list[1] = list[2] /\ list[1][1] >= list[1][2]

\* C11: clear_member_schedules on an existing member succeeds, empties that
\* member's list, keeps the member at its place with its color, keeps
\* every other member and the allocator index, and saves once.
C11_ClearSchedules ==
  \A name \in Names, io \in WriteOutcomes :
    (InEventLoop /\ HasMember(family_members, name)) =>
      LET out == clear_member_schedules(family_members, current_color_index,
                                        disk, name, io)
      IN  /\ out.result.success
          /\ HasMember(out.members, name)
          /\ Member(out.members, name).schedules = <<>>
          /\ Member(out.members, name).color = Member(family_members, name).color
          /\ Len(out.members) = Len(family_members)
          /\ MemberPos(out.members, name) = MemberPos(family_members, name)
          /\ OthersKept(family_members, out.members, name)
          /\ out.index = current_color_index
          /\ SavedOnce(out)

\* clear_member_schedules has emptied the list of one member while the
\* other member still holds its intervals
C11_Witness ==
  /\ result.op = "clear_member_schedules"
  /\ result.success
  /\ Len(family_members) = 2
  /\ \E k \in 1 .. 2 :
       /\ family_members[k].schedules = <<>>
       /\ family_members[3 - k].schedules # <<>>
  /\ disk = Serialize(family_members)

\* C12: the palette entries are distinct and, on a new allocator, the k-th
\* call of get_next_color returns the palette entry at (k - 1) mod 10: the
\* first ten calls go through the palette in order and the 11th returns
\* the first entry again.
C12_NextColorCycle ==
  /\ \A i, j \in 1 .. Len(CHART_COLORS) : i # j => CHART_COLORS[i] # CHART_COLORS[j]
  /\ (result.op = "get_next_color" /\ result.since = "ColorManager") =>
       /\ result.color = CHART_COLORS[((result.calls - 1) % 10) + 1]
       /\ current_color_index = result.calls % 10

\* the 11th call on a new allocator has returned the first palette entry
C12_Witness ==
  /\ result.op = "get_next_color"
  /\ result.since = "ColorManager"
  /\ result.calls = 11
  /\ result.color = CHART_COLORS[1]

\* the first position (0-based) of the palette whose color is not in used,
\* 0 when there is none
FirstUnused(used) ==
  LET free == {k \in 0 .. (Len(CHART_COLORS) - 1) : CHART_COLORS[k + 1] \notin used}
  IN  IF free = {} THEN 0 ELSE CHOOSE k \in free : \A m \in free : k <= m

\* C13: set_current_color_index_based_on_used_colors leaves the index at
\* the first palette position whose color is not in used_colors, whatever
\* the index was before, and at 0 when every palette color is used; a
\* get_next_color that follows returns the color at that position, so
\* after used_colors = {palette[2]} it returns palette[0].
C13_Reseed ==
  /\ result.op = "set_current_color_index_based_on_used_colors" =>
       current_color_index = FirstUnused(result.used_colors)
  /\ (/\ result.op = "get_next_color"
      /\ result.since = "set_current_color_index_based_on_used_colors"
      /\ result.calls = 1) =>
       /\ result.color = CHART_COLORS[FirstUnused(result.used_colors) + 1]
       /\ result.used_colors = {CHART_COLORS[3]} => result.color = CHART_COLORS[1]

\* the index was set from {palette[2]} when it was not 0, and the next
\* get_next_color has returned palette[0]
C13_Witness ==
  /\ result.op = "get_next_color"
  /\ result.since = "set_current_color_index_based_on_used_colors"
  /\ result.calls = 1
  /\ result.used_colors = {CHART_COLORS[3]}
  /\ result.before > 2
  /\ result.color = CHART_COLORS[1]

MutatingOps ==
  {"add_member", "delete_member", "add_schedule", "clear_member_schedules",
   "update_schedule", "delete_schedule"}

\* C14: while writes succeed, every successful add_member, delete_member,
\* add_schedule, clear_member_schedules, update_schedule and
\* delete_schedule has called save_data exactly once when it returns, and
\* in every state the file holds the store as it is in memory (there is no
\* file only as long as the store is empty).
C14_WriteThrough ==
  /\ (result.op \in MutatingOps /\ result.success) =>
       (result.saves = 1 /\ disk = Serialize(family_members))
  /\ disk = NoFile => family_members = <<>>
  /\ disk # NoFile => disk = Serialize(family_members)

\* a delete_schedule has returned with success; the file holds the two
\* members and the interval that is left
C14_Witness ==
  /\ result.op = "delete_schedule"
  /\ result.success
  /\ result.saves = 1
  /\ Len(family_members) = 2
  /\ TotalLen(family_members) = 1
  /\ Len(disk.entries) = 2

\* the outcome of a call is the same with a failed write as with a
\* successful one, but for the file
SameButFile(bad, ok) ==
  /\ bad.members = ok.members
  /\ bad.index = ok.index
  /\ bad.result = ok.result

\* a call that succeeded has saved once, and if the write succeeded the
\* file holds the whole store
WroteAll(ok) == ok.result.success => SavedOnce(ok)

\* C15: in every state, also when an earlier write was lost, each mutating
\* operation whose write fails leaves the store and the allocator as the
\* same call with a successful write does and returns the same result
\* (success, one save_data call); and each successful call whose write
\* succeeds leaves the file holding the whole store.
C15_WriteFailure ==
  InEventLoop =>
    \A name \in Names, io \in FailedWrites :
      LET m == family_members
          c == current_color_index
      IN  /\ SameButFile(add_member(m, c, disk, name, io),
                         add_member(m, c, disk, name, "ok"))
          /\ SameButFile(delete_member(m, c, disk, name, io),
                         delete_member(m, c, disk, name, "ok"))
          /\ SameButFile(clear_member_schedules(m, c, disk, name, io),
                         clear_member_schedules(m, c, disk, name, "ok"))
          /\ WroteAll(add_member(m, c, disk, name, "ok"))
          /\ WroteAll(delete_member(m, c, disk, name, "ok"))
          /\ WroteAll(clear_member_schedules(m, c, disk, name, "ok"))
          /\ \A x \in Intervals :
               /\ SameButFile(add_schedule(m, c, disk, name, x[1], x[2], io),
                              add_schedule(m, c, disk, name, x[1], x[2], "ok"))
               /\ WroteAll(add_schedule(m, c, disk, name, x[1], x[2], "ok"))
               /\ \A i \in IndexArgs :
                    /\ SameButFile(delete_schedule(m, c, disk, name, x, i, io),
                                   delete_schedule(m, c, disk, name, x, i, "ok"))
                    /\ WroteAll(delete_schedule(m, c, disk, name, x, i, "ok"))
                    /\ \A new \in Intervals :
                         /\ SameButFile(update_schedule(m, c, disk, name, x, i, new, io),
                                        update_schedule(m, c, disk, name, x, i, new, "ok"))
                         /\ WroteAll(update_schedule(m, c, disk, name, x, i, new, "ok"))

\* add_schedule has returned with success after its write failed: the
\* store holds an interval that the file does not hold
C15_Witness ==
  /\ result.op = "add_schedule"
  /\ result.success
  /\ result.saves = 1
  /\ TotalLen(family_members) = 2
  /\ disk.kind = "json"
  /\ disk # Serialize(family_members)

\* the entry of the file has a color and it is a palette color
StoredInPalette(e) == "color" \in DOMAIN e /\ e.color \in PaletteColors

\* the number of entries before position k that have no palette color
NewColorsBefore(entries, k) ==
  Cardinality({j \in 1 .. (k - 1) : ~StoredInPalette(entries[j])})

\* C16: after a load that went through, the store holds the members of the
\* file in the order of the file; a member whose stored color is a palette
\* color has that color; the members whose color is missing or outside the
\* palette have, in load order, the colors a new allocator gives out; and
\* the allocator index is the first palette position whose color no loaded
\* member has (0 if there is none).
C16_LoadColors ==
  (result.op = "load_data" /\ result.error = "none" /\ disk.kind = "json") =>
    LET entries == disk.entries
    IN  /\ Len(family_members) = Len(entries)
        /\ \A k \in 1 .. Len(entries) :
             /\ family_members[k].name = entries[k].name
             /\ family_members[k].color =
                  IF StoredInPalette(entries[k])
                  THEN entries[k].color
                  ELSE CHART_COLORS[(NewColorsBefore(entries, k) % 10) + 1]
        /\ current_color_index =
             FirstUnused({family_members[k].color : k \in 1 .. Len(family_members)})

\* ten members were loaded; the third had a color outside the palette and
\* got the first palette color, and the index is at the third position,
\* the only one whose color no member has
C16_Witness ==
  /\ result.op = "load_data"
  /\ result.error = "none"
  /\ Len(family_members) = 10
  /\ disk.entries[3].color = "black"
  /\ family_members[3].color = CHART_COLORS[1]
  /\ family_members[4].color = CHART_COLORS[4]
  /\ current_color_index = 2

\* C17: a load that raised, at json.load or in the loop over the entries,
\* has returned and left the store without any member.
C17_LoadFailure ==
  (result.op = "load_data" /\ result.error # "none") => family_members = <<>>

\* the load raised at the second entry of the file, after a first entry
\* that loads, and the store is empty
C17_Witness ==
  /\ result.op = "load_data"
  /\ result.error = "TypeError"
  /\ Len(disk.entries) = 2
  /\ IsObject(disk.entries[1])
  /\ Iterable(GetSchedules(disk.entries[1]))
  /\ family_members = <<>>


(***************************************************************************)
(* The drag controller.                                                    *)
(***************************************************************************)
\* the controller is Dragging: a bar and a mode are captured
Dragging == drag_data.item # NoItem /\ drag_data.mode # None

\* this step is a pointer-move that a handler received
MoveStep == canvas.pressed # "up" /\ result'.op = "drag_motion"

\* this step is a pointer-up that a handler received
UpStep == canvas.pressed # "up" /\ canvas'.pressed = "up" /\ Delivered

\* the interval pointer-up computes from the edges of the dragged bar
Candidate ==
  IF canvas.module = "gui"
  THEN NewScheduleGui(canvas.bars[drag_data.item[2]], drag_data.mode)
  ELSE NewSchedule(canvas.bars[drag_data.item[2]])

\* C18: while the controller is Dragging, a pointer-move changes neither
\* the store, nor the file, nor the allocator: only the chart and
\* drag_data change, whatever the mode and however many moves there are.
C18_MoveLeavesStore ==
  [][(Dragging /\ MoveStep) =>
       UNCHANGED <<family_members, disk, current_color_index>>]_vars

\* a move has displaced the dragged bar, and the store still holds the
\* captured interval at the captured index
C18_Witness ==
  /\ Dragging
  /\ result.op = "drag_motion"
  /\ Exists(canvas, drag_data.item)
  /\ canvas.bars[drag_data.item[2]].x1
       # CHART_START_X + drag_data.original_schedule[1] * HOUR_WIDTH
  /\ HasMember(family_members, drag_data.member_name)
  /\ drag_data.original_index
       < Len(Member(family_members, drag_data.member_name).schedules)
  /\ Member(family_members, drag_data.member_name).schedules[drag_data.original_index + 1]
       = drag_data.original_schedule

\* C19: a pointer-up received while Dragging leaves the controller Idle,
\* with item, mode, member name, original interval and original index
\* reset, whatever the store answered.
C19_UpResets ==
  [][(Dragging /\ UpStep) =>
       /\ drag_data'.item = NoItem
       /\ drag_data'.mode = None
       /\ drag_data'.member_name = None
       /\ drag_data'.original_schedule = <<>>
       /\ drag_data'.original_index = -1]_vars

\* C20: at pointer-up while Dragging, update_schedule is called if and
\* only if the rounded candidate differs from the captured interval; when
\* they are equal nothing is written; and a gesture ends without a call of
\* update_schedule only when the candidate equals the captured interval.
C20_CallIffChanged ==
  [][(Dragging /\ UpStep) =>
       /\ result'.op = "update_schedule" =>
            Exists(canvas, drag_data.item) /\ Candidate # drag_data.original_schedule
       /\ result'.op # "update_schedule" =>
            /\ Exists(canvas, drag_data.item)
            /\ Candidate = drag_data.original_schedule
            /\ UNCHANGED <<family_members, disk, current_color_index>>]_vars


\* update_schedule as end_drag calls it: with what pointer-down captured
\* and the candidate
Commit ==
  update_schedule(family_members, current_color_index, disk, drag_data.member_name,
                  drag_data.original_schedule, drag_data.original_index, Candidate, "ok")

\* this step is a pointer-down that a handler received
DownStep == canvas.pressed = "up" /\ canvas'.pressed = "down"

\* C21: a gesture that commits calls update_schedule once, at pointer-up,
\* with the member name, interval and index captured at pointer-down and
\* the rounded final interval; the store, the file and the result after
\* the pointer-up are those of that one call, failed or not (at most one
\* write), and pointer-down calls nothing.
C21_OneUpdate ==
  [][/\ (Dragging /\ UpStep /\ result'.op = "update_schedule") =>
          /\ family_members' = Commit.members
          /\ disk' = Commit.file
          /\ current_color_index' = Commit.index
          /\ result' = Commit.result
          /\ result'.saves <= 1
     /\ DownStep => UNCHANGED <<family_members, disk, current_color_index>>]_vars

\* a gesture has committed: the store holds the candidate
C21_Witness ==
  /\ result.op = "update_schedule"
  /\ result.success
  /\ result.saves = 1
  /\ canvas.pressed = "up"
  /\ drag_data = IdleDrag
  /\ disk = Serialize(family_members)


\* the duration of the interval captured at pointer-down
Duration == drag_data.original_schedule[2] - drag_data.original_schedule[1]

\* the controller is Dragging a bar that is on the canvas, in this mode
DraggingIn(mode) ==
  Dragging /\ drag_data.mode = mode /\ Exists(canvas, drag_data.item)

\* the dragged bar after this step
BarAfter == canvas'.bars[drag_data.item[2]]

\* C22: in a Move drag every candidate (the dragged bar after a
\* pointer-move) and the interval committed at pointer-up have the
\* duration of the captured interval, start at 0 or later and end at 24
\* or earlier.
C22_MoveKeepsDuration ==
  [][DraggingIn("move") =>
       /\ MoveStep =>
            /\ BarAfter.x2 - BarAfter.x1 = Duration * HOUR_WIDTH
            /\ BarAfter.x1 >= CHART_START_X
            /\ BarAfter.x2 <= CHART_END_X
       /\ (UpStep /\ result'.op = "update_schedule") =>
            /\ Candidate[2] - Candidate[1] = Duration
            /\ Candidate[1] >= 0
            /\ Candidate[2] <= 24]_vars


NearestHours(n) ==
  {h \in {n \div HOUR_WIDTH, (n \div HOUR_WIDTH) + 1} :
     /\ 2 * (h * HOUR_WIDTH - n) <= HOUR_WIDTH
     /\ 2 * (n - h * HOUR_WIDTH) <= HOUR_WIDTH}

Clamp(h) == Max(0, Min(24, h))

\* the intervals that commit rounding as stated gives for a bar
Rounded(b) ==
  {IF Clamp(e) <= Clamp(s)
   THEN <<Clamp(s), Min(24, Clamp(s) + 1)>>
   ELSE <<Clamp(s), Clamp(e)>> :
     s \in NearestHours(b.x1 - CHART_START_X), e \in NearestHours(b.x2 - CHART_START_X)}

\* C25: the interval pointer-up commits is the dragged bar with both ends
\* rounded to the nearest whole hour and clamped to 0..24, and with the
\* end forced to start + 1 (24 at most) if it is not after the start.
C25_CommitRounding ==
  [][(Dragging /\ UpStep /\ result'.op = "update_schedule") =>
       Candidate \in Rounded(canvas.bars[drag_data.item[2]])]_vars


\* the interval of the member at the index, as the store holds it
Stored(name, index) ==
  IF HasMember(family_members, name) /\ index < Len(Member(family_members, name).schedules)
  THEN Member(family_members, name).schedules[index + 1]
  ELSE <<>>

\* C26: a pointer-down on the bar drawn for index i of member M (on the
\* rectangle or on one of its handles) makes the controller Dragging with
\* member name M, original index i and, as original interval, the interval
\* the store holds for M at i, for names with and without a "_".
C26_Captured ==
  [][\A k \in 1 .. Len(canvas.bars), x \in PointerXs,
        part \in {"bar", "handle_left", "handle_right"} :
       PointerDown(k, part, x) =>
         /\ drag_data'.item # NoItem
         /\ drag_data'.mode # None
         /\ drag_data'.member_name = canvas.bars[k].member_name
         /\ drag_data'.original_index = canvas.bars[k].index
         /\ drag_data'.original_schedule
              = Stored(canvas.bars[k].member_name, canvas.bars[k].index)]_vars


\* the modes hit-testing as stated gives at x inside bar b (at exactly the
\* handle width from an edge, the mode of the handle or the mode next to
\* it)
HitModes(b, x) ==
  {m \in {"resize_left"} : x - b.x1 <= RESIZE_HANDLE_WIDTH}
  \cup {m \in {"resize_right"} :
          b.x2 - x <= RESIZE_HANDLE_WIDTH /\ x - b.x1 >= RESIZE_HANDLE_WIDTH}
  \cup {m \in {"move"} :
          x - b.x1 >= RESIZE_HANDLE_WIDTH /\ b.x2 - x >= RESIZE_HANDLE_WIDTH}

\* C27: a pointer-down at any position inside a bar starts a drag whose
\* mode is ResizeLeft within the handle width of the left edge,
\* ResizeRight within the handle width of the right edge, and Move
\* anywhere else.
C27_HitTesting ==
  [][\A k \in 1 .. Len(canvas.bars), x \in PointerXs,
        part \in {"bar", "text", "handle_left", "handle_right"} :
       (PointerDown(k, part, x) /\ Len(Segments(canvas.bars[k].member_name)) = 1) =>
         /\ drag_data'.item # NoItem
         /\ drag_data'.mode \in HitModes(canvas.bars[k], x)]_vars

\* the captured index no longer designates the captured interval in the
\* store, and an interval of the captured value is still there
Drifted ==
  /\ HasMember(family_members, drag_data.member_name)
  /\ Stored(drag_data.member_name, drag_data.original_index) # drag_data.original_schedule
  /\ \E j \in 1 .. Len(Member(family_members, drag_data.member_name).schedules) :
       Member(family_members, drag_data.member_name).schedules[j] = drag_data.original_schedule

\* C28: a gesture whose captured interval has changed its position in the
\* store since the press, while an interval of its value is still present,
\* ends in a successful commit (unless the bar is back on the captured
\* interval): update_schedule succeeds, one interval of the captured value
\* is replaced by the rounded one and the others stay.
C28_IndexDrift ==
  [][(Dragging /\ UpStep /\ Drifted) =>
       \/ /\ Exists(canvas, drag_data.item)
          /\ Candidate = drag_data.original_schedule
          /\ UNCHANGED family_members
       \/ /\ result'.op = "update_schedule"
          /\ result'.success
          /\ family_members' = Commit.members]_vars

\* a store call made from the chart has succeeded in this step
ChartMutation == result'.op \in {"update_schedule", "delete_schedule"} /\ result'.success

\* C29: after a successful store mutation started from the chart (commit
\* of a drag, edit dialog, delete from the menu) the chart shows the store;
\* the interval and index a press captures are those of the store; and the
\* update that ends a gesture succeeds.
C29_RedrawnAfterMutation ==
  [][/\ ChartMutation => canvas'.bars = Bars(canvas.module, family_members')
     /\ (DownStep /\ result'.success /\ drag_data'.item # NoItem) =>
          Stored(drag_data'.member_name, drag_data'.original_index)
            = drag_data'.original_schedule
     /\ (Dragging /\ UpStep /\ result'.op = "update_schedule") => result'.success]_vars

\* C30: every interval in the store has 0 <= start < end <= 24, whatever
\* gestures, form adds, dialog edits and deletes have been made.
C30_StoredIntervalsValid ==
  \A k \in 1 .. Len(family_members) :
    \A j \in 1 .. Len(family_members[k].schedules) :
      LET schedule == family_members[k].schedules[j]
      IN  0 <= schedule[1] /\ schedule[1] < schedule[2] /\ schedule[2] <= 24

\* C31: for a member of the store and a fixed old and new interval, all
\* indexes for which update_schedule succeeds leave the same store: which of
\* several equal intervals goes does not show in the result.
C31_IndexNotObservable ==
  \A name \in Names, old \in Intervals, new \in Intervals :
    (InEventLoop /\ HasMember(family_members, name)) =>
      LET Updated(i) == update_schedule(family_members, current_color_index, disk,
                                        name, old, i, new, "ok")
          left == {<<Updated(i).members, Updated(i).file>> :
                     i \in {j \in IndexArgs : Updated(j).result.success}}
      IN  Cardinality(left) <= 1

\* an update has succeeded and left a member with two equal intervals, any
\* of which the next update can remove
C31_Witness ==
  /\ result.op = "update_schedule"
  /\ result.success
  /\ \E k \in 1 .. Len(family_members) :
       /\ Len(family_members[k].schedules) = 2
       /\ family_members[k].schedules[1] = family_members[k].schedules[2]

\* the member of the gesture is in the store and none of its intervals
\* equals the captured one
Gone ==
  /\ HasMember(family_members, drag_data.member_name)
  /\ \A j \in 1 .. Len(Member(family_members, drag_data.member_name).schedules) :
       Member(family_members, drag_data.member_name).schedules[j]
         # drag_data.original_schedule

\* C32: a gesture whose captured interval is no longer in the store at the
\* release (unless the bar is back on the captured interval) ends in an
\* update_schedule that fails with IntervalNotFound; the store, the
\* allocator and the file stay as they are and drag_data is reset.
C32_CapturedGone ==
  [][(Dragging /\ UpStep /\ Gone) =>
       /\ \/ Exists(canvas, drag_data.item) /\ Candidate = drag_data.original_schedule
          \/ /\ result'.op = "update_schedule"
             /\ ~result'.success
             /\ result'.error = "IntervalNotFound"
       /\ StoreUnchanged
       /\ drag_data' = IdleDrag]_vars

\* C33: a successful update_schedule leaves the member with as many
\* intervals as before, at its place and with its color, and leaves every
\* other member and the allocator index as they are.
C33_UpdateFrame ==
  \A name \in Names, old \in Intervals, i \in IndexArgs, new \in Intervals :
    (InEventLoop /\ HasMember(family_members, name)) =>
      LET out == update_schedule(family_members, current_color_index, disk,
                                 name, old, i, new, "ok")
      IN  out.result.success =>
            /\ HasMember(out.members, name)
            /\ Len(Member(out.members, name).schedules) = Len(SchedulesOf(name))
            /\ Member(out.members, name).color = Member(family_members, name).color
            /\ MemberPos(out.members, name) = MemberPos(family_members, name)
            /\ Len(out.members) = Len(family_members)
            /\ OthersKept(family_members, out.members, name)
            /\ out.index = current_color_index

\* an update has succeeded on a member with two intervals while another
\* member is in the store
C33_Witness ==
  /\ result.op = "update_schedule"
  /\ result.success
  /\ Len(family_members) = 2
  /\ \E k \in 1 .. 2 : Len(family_members[k].schedules) = 2

\* the stores the operations on member name lead to from this state
StoresAfter(name) ==
  LET Members(out) == out.members
  IN  {Members(add_member(family_members, current_color_index, disk, name, "ok")),
       Members(delete_member(family_members, current_color_index, disk, name, "ok")),
       Members(clear_member_schedules(family_members, current_color_index, disk,
                                      name, "ok"))}
      \cup {Members(add_schedule(family_members, current_color_index, disk, name,
                                 x[1], x[2], "ok")) : x \in Intervals}
      \cup {Members(delete_schedule(family_members, current_color_index, disk, name,
                                    x[1], x[2], "ok")) :
              x \in Intervals \X IndexArgs}
      \cup {Members(update_schedule(family_members, current_color_index, disk, name,
                                    x[1], x[2], x[3], "ok")) :
              x \in Intervals \X IndexArgs \X Intervals}

\* C34: every member of the store has a color of the palette, and no
\* operation on it or on another member changes it while the member stays
\* in the store: the color is the one add_member or the load gave.
C34_ColorFixed ==
  /\ \A k \in 1 .. Len(family_members) : InPalette(family_members[k].color)
  /\ \A name \in Names, other \in Names :
       HasMember(family_members, name) =>
         \A after \in StoresAfter(other) :
           HasMember(after, name) =>
             Member(after, name).color = Member(family_members, name).color

\* two members were loaded, the first with a stored color outside the
\* palette and with an interval: it has the first palette color
C34_Witness ==
  /\ disk.kind = "json"
  /\ Len(family_members) = 2
  /\ GetColor(disk.entries[1]) = "black"
  /\ family_members[1].color = CHART_COLORS[1]
  /\ Len(family_members[1].schedules) = 1

PaletteIndexes == 0 .. (Len(CHART_COLORS) - 1)

\* the allocator indexes that the operations on member name other than a
\* successful add_member leave from this state
IndexesAfter(name) ==
  LET Index(out) == out.index
  IN  {Index(delete_member(family_members, current_color_index, disk, name, "ok")),
       Index(clear_member_schedules(family_members, current_color_index, disk,
                                    name, "ok"))}
      \cup (IF HasMember(family_members, name)
            THEN {Index(add_member(family_members, current_color_index, disk,
                                   name, "ok"))}
            ELSE {})
      \cup {Index(add_schedule(family_members, current_color_index, disk, name,
                               x[1], x[2], "ok")) : x \in Intervals}
      \cup {Index(delete_schedule(family_members, current_color_index, disk, name,
                                  x[1], x[2], "ok")) :
              x \in Intervals \X IndexArgs}
      \cup {Index(update_schedule(family_members, current_color_index, disk, name,
                                  x[1], x[2], x[3], "ok")) :
              x \in Intervals \X IndexArgs \X Intervals}

\* C35: the allocator index is within 0..9 and get_next_color and
\* set_current_color_index_based_on_used_colors keep it there; of the store
\* operations only a successful add_member and the load change it:
\* delete_member, the interval operations and every failed call leave it.
C35_IndexFrame ==
  /\ current_color_index \in PaletteIndexes
  /\ \A index \in PaletteIndexes : get_next_color(index).index \in PaletteIndexes
  /\ \A used_colors \in UsedColorSets :
       set_current_color_index_based_on_used_colors(used_colors) \in PaletteIndexes
  /\ load_data(disk).index \in PaletteIndexes
  /\ InEventLoop => \A name \in Names : IndexesAfter(name) = {current_color_index}

\* the only member has been deleted and the allocator stays behind the
\* color it had
C35_Witness ==
  /\ result.op = "delete_member"
  /\ result.success
  /\ family_members = <<>>
  /\ current_color_index = 1

\* the colors of the members of the store
ColorsOf(members) == {members[k].color : k \in 1 .. Len(members)}

\* C36: when the store and the allocator are as the load left them and the
\* loaded members do not have every palette color between them, the member
\* that add_member adds gets a color that none of them has, whether they
\* had their color in the file or got it during the load.
C36_FirstAddAfterLoad ==
  [][\A name \in NamesAfterLoad :
       (/\ Loaded
        /\ family_members # <<>>
        /\ \E k \in 1 .. Len(CHART_COLORS) : CHART_COLORS[k] \notin ColorsOf(family_members)
        /\ ~HasMember(family_members, name)
        /\ result'.op = "add_member"
        /\ HasMember(family_members', name)) =>
         Member(family_members', name).color \notin ColorsOf(family_members)]_vars

\* member "k" has been added after the load of ten members of which the
\* third got the first palette color in the load: "k" has the third
\* palette color, the only one no loaded member has
C36_Witness ==
  /\ result.op = "add_member"
  /\ result.success
  /\ Len(family_members) = 11
  /\ family_members[3].color = CHART_COLORS[1]
  /\ family_members[11].name = "k"
  /\ family_members[11].color = CHART_COLORS[3]

\* C37: writing the store and loading the file back gives the same member
\* names in the same order, and for each member the same interval list and
\* the same color.
C37_RoundTrip ==
  LET back == load_data(save_data(disk, family_members, "ok"))
  IN  /\ back.raised = "none"
      /\ Len(back.members) = Len(family_members)
      /\ \A k \in 1 .. Len(family_members) :
           /\ back.members[k].name = family_members[k].name
           /\ back.members[k].schedules = family_members[k].schedules
           /\ back.members[k].color = family_members[k].color

\* a new process has loaded a file that the program wrote: two members,
\* the first with the last palette color, and two intervals
C37_Witness ==
  /\ result.op = "load_data"
  /\ Len(family_members) = 2
  /\ family_members[1].color = CHART_COLORS[10]
  /\ TotalLen(family_members) = 2

\* C38: a release that follows a press directly, with no pointer-move in
\* between, changes neither the store nor the allocator nor the file and
\* saves nothing, in every mode, when the stored intervals are within 0..24.
C38_PressRelease ==
  [][(result.op = "drag_start" /\ UpStep /\ C30_StoredIntervalsValid) =>
       /\ StoreUnchanged
       /\ result'.saves = 0]_vars

\* the controller is Idle and holds nothing of a gesture
IdleUnset ==
  /\ drag_data.item = NoItem
  /\ drag_data.mode = None
  /\ drag_data.member_name = None
  /\ drag_data.original_schedule = <<>>

\* the controller is Dragging one bar and holds all that a press captures
DraggingSet ==
  /\ drag_data.item # NoItem
  /\ drag_data.mode \in {"move", "resize_left", "resize_right"}
  /\ drag_data.member_name # None
  /\ drag_data.original_schedule # <<>>
  /\ drag_data.original_index >= 0

\* C39: in every state drag_data is either all unset (Idle) or holds one
\* bar, a mode and the captured member, interval and index (Dragging); a
\* pointer-move and a pointer-up that a handler receives in Idle change
\* neither drag_data nor the store.
C39_DragStateConsistent ==
  [][/\ (IdleUnset \/ DraggingSet)'
     /\ (drag_data.item = NoItem /\ result'.op \in {"drag_motion", "end_drag"}) =>
          /\ UNCHANGED drag_data
          /\ StoreUnchanged]_vars
====
